---- MODULE Spec2Model ----
(***************************************************************************)
(* Model of art/preprocessing/image/image_resize/numpy.py: the ImageResize *)
(* preprocessor (constructor, _check_params and __call__).                  *)
(*                                                                         *)
(* Python objects that can be shared between caller and callee (label      *)
(* lists, dict records, numpy arrays of labels) live in a heap addressed   *)
(* by positive integers; address 0 is None.  Images are 3-D arrays written *)
(* as nested sequences.  Box coordinates and scale factors are exact       *)
(* rationals <<numerator, denominator>> (floating-point rounding of the    *)
(* true division and of the in-place product is not modelled).             *)
(***************************************************************************)
EXTENDS Integers, Sequences, FiniteSets, TLC

VARIABLES
    pc,                 \* position of the caller / of __call__
    args,               \* arguments handed to __init__
    self,               \* the ImageResize instance (fields set by __init__)
    err,                \* the exception that ended __init__ or __call__
    heap,               \* Python objects by address (1..Len(heap))
    owned,              \* addresses 1..owned are the caller's input objects
    x,                  \* argument x of __call__: the image batch
    y,                  \* argument y of __call__: address of the labels, 0 = None
    i,                  \* number of loop iterations of __call__ completed
    x_preprocess_list,  \* local of __call__
    y_preprocess,       \* local of __call__: address, 0 = None
    result              \* value returned by __call__

vars == <<pc, args, self, err, heap, owned, x, y, i, x_preprocess_list, y_preprocess, result>>

\* ------------------------------------------------------------------ bounds
MaxB == 2
MaxLabels == 2

\* ------------------------------------------------------------- Python bits
None == 0
NoError == [type |-> "", msg |-> ""]
NoSelf == [height |-> 0, width |-> 0, channels_first |-> FALSE, label_type |-> "",
           clip_values |-> <<"None">>]
NoResult == [x |-> <<>>, y |-> None, set |-> FALSE]

label_types == {"classification", "object_detection"}

\* clip_values is <<"None">> for None and <<"tuple", t>> for a tuple t
NoClip == <<"None">>
Clip(t) == <<"tuple", t>>

Min(a, b) == IF a <= b THEN a ELSE b
Max(a, b) == IF a >= b THEN a ELSE b
Abs(n) == IF n < 0 THEN -n ELSE n

RECURSIVE GCD(_, _)
GCD(a, b) == IF b = 0 THEN a ELSE GCD(b, a % b)

\* exact rationals in lowest terms, denominator > 0
Rat(n, d) == LET g == GCD(Abs(n), d) IN <<n \div g, d \div g>>
RatOfInt(n) == <<n, 1>>
RatMul(a, b) == Rat(a[1] * b[1], a[2] * b[2])
\* Python 3 true division of two ints, the divisor positive
TrueDiv(a, b) == Rat(a, b)

Ndarray(dtype, data) == [kind |-> "ndarray", dtype |-> dtype, val |-> data]
Dict(items) == [kind |-> "dict", dtype |-> "", val |-> items]
List(items) == [kind |-> "list", dtype |-> "", val |-> items]

\* dict records are insertion-ordered sequences of <<key, address>>
Keys(d) == {d.val[n][1] : n \in 1..Len(d.val)}
Lookup(d, k) == LET n == CHOOSE m \in 1..Len(d.val) : d.val[m][1] = k IN d.val[n][2]

\* ------------------------------------------------------------ _check_params
check_params_no_eq(a) ==
    IF a.height <= 0 THEN [type |-> "ValueError", msg |-> "The desired image height must be positive."]
    ELSE IF a.width <= 0 THEN [type |-> "ValueError", msg |-> "The desired image width must be positive"]
    ELSE IF a.clip_values # NoClip /\ Len(a.clip_values[2]) # 2
        THEN [type |-> "ValueError", msg |-> "clip_values should be a tuple of 2 floats containing the allowed data range."]
    ELSE IF a.clip_values # NoClip /\ a.clip_values[2][1] > a.clip_values[2][2]
        THEN [type |-> "ValueError", msg |-> "Invalid clip_values: min >= max."]
    ELSE NoError

check_params_label_type(a) ==
    IF a.height <= 0 THEN [type |-> "ValueError", msg |-> "The desired image height must be positive."]
    ELSE IF a.width <= 0 THEN [type |-> "ValueError", msg |-> "The desired image width must be positive"]
    ELSE IF a.label_type \notin label_types THEN [type |-> "ValueError", msg |-> "label_type"]
    ELSE IF a.clip_values # NoClip /\ Len(a.clip_values[2]) # 2
        THEN [type |-> "ValueError", msg |-> "clip_values should be a tuple of 2 floats containing the allowed data range."]
    ELSE IF a.clip_values # NoClip /\ a.clip_values[2][1] >= a.clip_values[2][2]
        THEN [type |-> "ValueError", msg |-> "Invalid clip_values: min >= max."]
    ELSE NoError

\* the exception _check_params raises on the fields a, NoError when it returns
check_params(a) ==
    IF a.height <= 0 THEN [type |-> "ValueError", msg |-> "The desired image height must be positive."]
    ELSE IF a.width <= 0 THEN [type |-> "ValueError", msg |-> "The desired image width must be positive"]
    ELSE IF a.clip_values # NoClip /\ Len(a.clip_values[2]) # 2
        THEN [type |-> "ValueError", msg |-> "clip_values should be a tuple of 2 floats containing the allowed data range."]
    ELSE IF a.clip_values # NoClip /\ a.clip_values[2][1] >= a.clip_values[2][2]
        THEN [type |-> "ValueError", msg |-> "Invalid clip_values: min >= max."]
    ELSE NoError

\* arguments a caller may hand to the constructor
SizeArgs == {<<0, 1>>, <<1, 0>>, <<-1, 1>>, <<1, -1>>, <<0, 0>>, <<1, 2>>, <<2, 1>>}
ClipArgs == {NoClip, Clip(<<>>), Clip(<<0>>), Clip(<<0, 1>>), Clip(<<1, 0>>),
             Clip(<<1, 1>>), Clip(<<0, 1, 2>>)}
LabelTypeArgs == {"classification", "object_detection", "segmentation"}
CtorArgs ==
    {[height |-> s[1], width |-> s[2], channels_first |-> cf, label_type |-> lt,
      clip_values |-> cv] :
        s \in SizeArgs, cf \in BOOLEAN, lt \in LabelTypeArgs, cv \in ClipArgs}

\* ImageResize.__init__: store the fields, then validate them
Construct(a) ==
    /\ pc = "new"
    /\ args' = a
    /\ LET e == check_params(a) IN
         IF e = NoError
           THEN /\ self' = a
                /\ err' = NoError
                /\ pc' = "constructed"
           ELSE /\ self' = NoSelf
                /\ err' = e
                /\ pc' = "init_raised"
    /\ UNCHANGED <<heap, owned, x, y, i, x_preprocess_list, y_preprocess, result>>

\* ------------------------------------------------------------ numpy / cv2
\* shape of a 3-D array (every dimension at least 1)
Shape(a) == <<Len(a), Len(a[1]), Len(a[1][1])>>

\* np.transpose(a, axes) of a 3-D array: axis n of the result is axis axes[n] of a
np_transpose(a, axes) ==
    LET s == Shape(a) IN
    [p \in 1..s[axes[1] + 1] |->
      [q \in 1..s[axes[2] + 1] |->
        [r \in 1..s[axes[3] + 1] |->
           LET o == <<p, q, r>>
               src == [n \in 1..3 |-> o[CHOOSE m \in 1..3 : axes[m] + 1 = n]]
           IN a[src[1]][src[2]][src[3]]]]]

cv2_resize_swapped(src, dsize) ==
    LET s == Shape(src) IN
    [r \in 1..dsize[1] |->
      [c \in 1..dsize[2] |->
        [k \in 1..s[3] |->
           src[Min(((r - 1) * s[1]) \div dsize[1], s[1] - 1) + 1]
              [Min(((c - 1) * s[2]) \div dsize[2], s[2] - 1) + 1][k]]]]

\* cv2.resize(src, dsize) on a height-width-channels array: dsize is (width, height),
\* the result has dsize[2] rows, dsize[1] columns and the channels of src; the pixel
\* values are those of nearest-neighbour sampling
cv2_resize(src, dsize) ==
    LET s == Shape(src) IN
    [r \in 1..dsize[2] |->
      [c \in 1..dsize[1] |->
        [k \in 1..s[3] |->
           src[Min(((r - 1) * s[1]) \div dsize[2], s[1] - 1) + 1]
              [Min(((c - 1) * s[2]) \div dsize[1], s[2] - 1) + 1][k]]]]

\* np.stack(arrays): the exception it raises, NoError when it returns the stack
np_stack_error(arrays) ==
    IF Len(arrays) = 0
      THEN [type |-> "ValueError", msg |-> "need at least one array to stack"]
    ELSE IF \E n \in 1..Len(arrays) : Shape(arrays[n]) # Shape(arrays[1])
      THEN [type |-> "ValueError", msg |-> "all input arrays must have the same shape"]
    ELSE NoError

np_clip_no_max(v, a_min, a_max) == Max(v, a_min)

\* np.clip on one element: minimum(maximum(v, a_min), a_max)
np_clip(v, a_min, a_max) == Min(Max(v, a_min), a_max)

\* np.clip on a stacked batch
clip_batch(batch, a_min, a_max) ==
    [b \in 1..Len(batch) |->
      [p \in 1..Len(batch[b]) |->
        [q \in 1..Len(batch[b][p]) |->
          [r \in 1..Len(batch[b][p][q]) |-> np_clip(batch[b][p][q][r], a_min, a_max)]]]]

np_copy_view(h, a) == [heap |-> h, addr |-> a]

\* np.copy(v): a new array holding the values of v
np_copy(h, a) == [heap |-> Append(h, h[a]), addr |-> Len(h) + 1]

\* {k: np.copy(v) for k, v in y_i.items()}: the copies in the heap, the new items
RECURSIVE copy_items(_, _)
copy_items(h, items) ==
    IF Len(items) = 0 THEN [heap |-> h, items |-> <<>>]
    ELSE LET c == np_copy(h, items[1][2])
             rest == copy_items(c.heap, Tail(items))
         IN [heap |-> rest.heap, items |-> <<<<items[1][1], c.addr>>>> \o rest.items]

scale_boxes_swapped(rows, width_scale, height_scale) ==
    [n \in 1..Len(rows) |->
        <<RatMul(rows[n][1], height_scale), RatMul(rows[n][2], width_scale),
          RatMul(rows[n][3], height_scale), RatMul(rows[n][4], width_scale)>>]

\* the four in-place column products on the copied boxes array
scale_boxes(rows, width_scale, height_scale) ==
    [n \in 1..Len(rows) |->
        <<RatMul(rows[n][1], width_scale), RatMul(rows[n][2], height_scale),
          RatMul(rows[n][3], width_scale), RatMul(rows[n][4], height_scale)>>]

rescales_any_label(label_type, labels) == labels # None

\* the condition under which __call__ builds a new label list and rescales boxes
rescales(label_type, labels) == labels # None /\ label_type = "object_detection"

WrongTypeAsValueError == [type |-> "ValueError", msg |-> "Wrong type for y and label_type=object_detection."]

\* the exception raised for labels of the wrong type
WrongType == [type |-> "TypeError", msg |-> "Wrong type for y and label_type=object_detection."]

\* numpy's UFuncTypeError (a TypeError) for an in-place product of an integer array
\* by a float
CannotCast == [type |-> "TypeError", msg |-> "Cannot cast ufunc multiply output"]

\* the label part of one loop iteration: the heap after it and the exception raised
resize_labels(h, labels, out, n, x_i, s) ==
    IF ~(h[labels].kind = "list" /\ h[out].kind = "list")
      THEN [heap |-> h, err |-> WrongType]
    ELSE IF n + 1 > Len(h[labels].val)
      THEN [heap |-> h, err |-> [type |-> "IndexError", msg |-> "list index out of range"]]
    ELSE LET y_i == h[labels].val[n + 1] IN
      IF h[y_i].kind # "dict"
        THEN [heap |-> h, err |-> WrongType]
      ELSE
        LET copied == copy_items(h, h[y_i].val)
            h1 == Append(copied.heap, Dict(copied.items))
            y_resized == Len(h1)
            height_scale == TrueDiv(s.height, Shape(x_i)[1])
            width_scale == TrueDiv(s.width, Shape(x_i)[2])
        IN IF "boxes" \notin Keys(h1[y_resized])
             THEN [heap |-> h1, err |-> [type |-> "KeyError", msg |-> "boxes"]]
           ELSE LET b == Lookup(h1[y_resized], "boxes") IN
             IF h1[b].dtype # "float"
               THEN [heap |-> h1, err |-> CannotCast]
               ELSE [heap |-> [h1 EXCEPT ![b].val = scale_boxes(@, width_scale, height_scale),
                                         ![out].val = Append(@, y_resized)],
                     err |-> NoError]

\* ------------------------------------------------------------------ inputs
PixelCycle == <<-1, 0, 1, 2>>

\* a 3-D image of the given shape whose pixels run through PixelCycle
Image(d) ==
    [a \in 1..d[1] |-> [b \in 1..d[2] |-> [c \in 1..d[3] |->
        PixelCycle[((a + 2 * b + 3 * c + d[1]) % Len(PixelCycle)) + 1]]]]

ImageShapes == {<<2, 1, 2>>, <<2, 2, 2>>, <<3, 1, 3>>}
Images == {Image(d) : d \in ImageShapes}

RECURSIVE SeqsUpTo(_, _)
SeqsUpTo(S, n) ==
    IF n = 0 THEN {<<>>}
    ELSE LET shorter == SeqsUpTo(S, n - 1)
         IN shorter \cup {Append(q, e) : q \in {t \in shorter : Len(t) = n - 1}, e \in S}

Batches == SeqsUpTo(Images, MaxB)

BoxesA == <<<<RatOfInt(4), RatOfInt(2), RatOfInt(8), RatOfInt(6)>>,
            <<RatOfInt(1), RatOfInt(0), RatOfInt(3), RatOfInt(5)>>>>
BoxesB == <<<<RatOfInt(0), RatOfInt(1), RatOfInt(2), RatOfInt(3)>>>>
ClassIds == <<7, 9>>

\* the elements a caller may put in a label list: dict records with float boxes
\* (with and without a second field), with integer boxes, without boxes, and a
\* bare array
ItemKinds == {"rec", "rec2", "int", "nobox", "arr"}

\* the objects of one list element, appended to heap h; the element is the last
ItemObjects(h, kind) ==
    LET n == Len(h) IN
    CASE kind = "rec"   -> <<Ndarray("int", ClassIds), Ndarray("float", BoxesA),
                             Dict(<<<<"labels", n + 1>>, <<"boxes", n + 2>>>>)>>
      [] kind = "rec2"  -> <<Ndarray("float", BoxesB), Dict(<<<<"boxes", n + 1>>>>)>>
      [] kind = "int"   -> <<Ndarray("int", BoxesB), Dict(<<<<"boxes", n + 1>>>>)>>
      [] kind = "nobox" -> <<Ndarray("int", ClassIds), Dict(<<<<"labels", n + 1>>>>)>>
      [] kind = "arr"   -> <<Ndarray("float", BoxesA)>>

RECURSIVE ListObjects(_, _, _)
\* the heap holding the elements of kinds[1..], then the list of their addresses
ListObjects(h, kinds, addrs) ==
    IF Len(kinds) = 0 THEN Append(h, List(addrs))
    ELSE LET h1 == h \o ItemObjects(h, kinds[1])
         IN ListObjects(h1, Tail(kinds), Append(addrs, Len(h1)))

\* label arguments: None, one array, one dict record, or a list of elements
LabelInputs ==
    {<<"None">>, <<"ndarray">>, <<"dict">>} \cup
    {<<"list", kinds>> : kinds \in SeqsUpTo(ItemKinds, MaxLabels)}

\* the caller's heap for a label argument (the argument is its last object)
LabelHeap(lab) ==
    CASE lab[1] = "None"    -> <<>>
      [] lab[1] = "ndarray" -> <<Ndarray("int", ClassIds)>>
      [] lab[1] = "dict"    -> ItemObjects(<<>>, "rec")
      [] lab[1] = "list"    -> ListObjects(<<>>, lab[2], <<>>)

\* ------------------------------------------------------------------ __call__
\* entry of __call__ on images xs and labels lab: the locals before the loop
Call(xs, lab) ==
    /\ pc = "constructed"
    /\ LET h == LabelHeap(lab)
           labels == Len(h)
       IN /\ x' = xs
          /\ y' = labels
          /\ owned' = Len(h)
          /\ x_preprocess_list' = <<>>
          /\ IF rescales(self.label_type, labels)
               THEN /\ heap' = Append(h, List(<<>>))
                    /\ y_preprocess' = Len(h) + 1
               ELSE /\ heap' = h
                    /\ y_preprocess' = labels
    /\ i' = 0
    /\ pc' = "loop"
    /\ UNCHANGED <<args, self, err, result>>

\* one iteration of the loop over x
LoopBody ==
    /\ pc = "loop"
    /\ i < Len(x)
    /\ \E x_i \in {IF self.channels_first THEN np_transpose(x[i + 1], <<1, 2, 0>>)
                                           ELSE x[i + 1]} :
       \E resized \in {cv2_resize(x_i, <<self.width, self.height>>)} :
       \E x_resized \in {IF self.channels_first THEN np_transpose(resized, <<2, 0, 1>>)
                                                ELSE resized} :
       \E lab \in {IF self.label_type = "object_detection" /\ y # None
                     THEN resize_labels(heap, y, y_preprocess, i, x_i, self)
                     ELSE [heap |-> heap, err |-> NoError]} :
          /\ x_preprocess_list' = Append(x_preprocess_list, x_resized)
          /\ heap' = lab.heap
          /\ err' = lab.err
          /\ IF lab.err = NoError
               THEN pc' = "loop" /\ i' = i + 1
               ELSE pc' = "raised" /\ i' = i
    /\ UNCHANGED <<args, self, owned, x, y, y_preprocess, result>>

\* after the loop: stack, clip and return
StackAndReturn ==
    /\ pc = "loop"
    /\ i = Len(x)
    /\ LET e == np_stack_error(x_preprocess_list)
           x_preprocess ==
             IF self.clip_values # NoClip
               THEN clip_batch(x_preprocess_list, self.clip_values[2][1], self.clip_values[2][2])
               ELSE x_preprocess_list
       IN IF e # NoError
            THEN /\ pc' = "raised"
                 /\ err' = e
                 /\ result' = result
            ELSE /\ pc' = "returned"
                 /\ err' = err
                 /\ result' = [x |-> x_preprocess, y |-> y_preprocess, set |-> TRUE]
    /\ UNCHANGED <<args, self, heap, owned, x, y, i, x_preprocess_list, y_preprocess>>

\* the caller, after the return, overwrites one array of a returned record
CallerWritesOutput ==
    /\ pc = "returned"
    /\ result.y # None
    /\ heap[result.y].kind = "list"
    /\ \E n \in 1..Len(heap[result.y].val) :
         LET rec == heap[heap[result.y].val[n]] IN
         /\ rec.kind = "dict"
         /\ \E m \in 1..Len(rec.val) :
              heap' = [heap EXCEPT ![rec.val[m][2]].val = <<>>]
    /\ pc' = "written"
    /\ UNCHANGED <<args, self, err, owned, x, y, i, x_preprocess_list, y_preprocess, result>>

Init ==
    /\ pc = "new"
    /\ args = NoSelf
    /\ self = NoSelf
    /\ err = NoError
    /\ heap = <<>>
    /\ owned = 0
    /\ x = <<>>
    /\ y = None
    /\ i = 0
    /\ x_preprocess_list = <<>>
    /\ y_preprocess = None
    /\ result = NoResult

Next ==
    \/ pc = "new" /\ \E a \in CtorArgs : Construct(a)
    \/ pc = "constructed" /\ \E xs \in Batches, lab \in LabelInputs : Call(xs, lab)
    \/ LoopBody
    \/ StackAndReturn
    \/ CallerWritesOutput

Spec == Init /\ [][Next]_vars

\* ------------------------------------------------------------- properties
B == Len(x)
Finished == pc \in {"returned", "raised"}
RescalePath == self.label_type = "object_detection" /\ y # None

\* original (pre-resize) height, width and channels of input image n
OrigHeight(n) == IF self.channels_first THEN Len(x[n][1]) ELSE Len(x[n])
OrigWidth(n) == IF self.channels_first THEN Len(x[n][1][1]) ELSE Len(x[n][1])
Channels(n) == IF self.channels_first THEN Len(x[n]) ELSE Len(x[n][1][1])
UniformChannels == \A n \in 1..B : Channels(n) = Channels(1)

\* the returned batch holds B images, image n of the configured size and layout
\* with the channels of input image n
ShapeOK ==
    /\ Len(result.x) = B
    /\ \A n \in 1..B :
         Shape(result.x[n]) =
            IF self.channels_first THEN <<Channels(n), self.height, self.width>>
                                   ELSE <<self.height, self.width, Channels(n)>>

\* C1: for every constructed configuration and every batch of B images whose heights
\* and widths may differ, the batch __call__ returns holds exactly B images in input
\* order, image n of spatial size (height, width) in the configured layout with the
\* channels of input image n; and a call on a non-empty batch of one channel count
\* whose labels are not rescaled does return (the empty batch is the case of C3).
C1_BatchShape ==
    /\ pc = "returned" => ShapeOK
    /\ (Finished /\ B >= 1 /\ UniformChannels /\ ~RescalePath) => pc = "returned"

\* a channels-first batch of two images of different sizes, resized to a
\* non-square target
C1_Witness ==
    /\ pc = "returned"
    /\ B = 2
    /\ <<OrigHeight(1), OrigWidth(1)>> # <<OrigHeight(2), OrigWidth(2)>>
    /\ self.channels_first
    /\ self.height # self.width

\* the value x * target / orig of claim C2, for a coordinate x = <<num, den>>
Rescaled(c, target, orig) == Rat(c[1] * target, c[2] * orig)

ExpectedBoxes(rows, n) ==
    [k \in 1..Len(rows) |->
        <<Rescaled(rows[k][1], self.width, OrigWidth(n)),
          Rescaled(rows[k][2], self.height, OrigHeight(n)),
          Rescaled(rows[k][3], self.width, OrigWidth(n)),
          Rescaled(rows[k][4], self.height, OrigHeight(n))>>]

\* C2: on the object-detection path the returned label list has exactly B records
\* in input order; record n has the fields of input record n, its boxes are the
\* input boxes with x scaled by width/W_n and y by height/H_n (no clamping), and
\* every other field is value-equal to the input's.
C2_BoxesRescaled ==
    (pc = "returned" /\ RescalePath) =>
        LET out == heap[result.y].val
            inp == heap[y].val
        IN /\ heap[result.y].kind = "list"
           /\ Len(out) = B
           /\ \A n \in 1..B :
                LET ro == heap[out[n]]
                    ri == heap[inp[n]]
                IN /\ ro.kind = "dict"
                   /\ Len(ro.val) = Len(ri.val)
                   /\ \A m \in 1..Len(ri.val) :
                        /\ ro.val[m][1] = ri.val[m][1]
                        /\ heap[ro.val[m][2]].kind = "ndarray"
                        /\ heap[ro.val[m][2]].dtype = heap[ri.val[m][2]].dtype
                        /\ heap[ro.val[m][2]].val =
                             IF ri.val[m][1] = "boxes"
                               THEN ExpectedBoxes(heap[ri.val[m][2]].val, n)
                               ELSE heap[ri.val[m][2]].val

\* two images of different sizes with different records: a box coordinate that is
\* no longer an integer and one that lies outside the resized image
C2_Witness ==
    /\ pc = "returned" /\ RescalePath
    /\ B = 2 /\ x[1] # x[2]
    /\ heap[heap[y].val[1]] # heap[heap[y].val[2]]
    /\ \E n \in 1..B :
         LET rows == heap[Lookup(heap[heap[result.y].val[n]], "boxes")].val
         IN \E k \in 1..Len(rows) : rows[k][1][2] # 1
    /\ \E n \in 1..B :
         LET rows == heap[Lookup(heap[heap[result.y].val[n]], "boxes")].val
         IN \E k \in 1..Len(rows) : rows[k][3][1] > self.width * rows[k][3][2]

\* C3: a call on the empty batch raises nothing and returns an empty batch, and on
\* the object-detection path with an empty label list an empty label list.
C3_EmptyBatchReturnsEmpty ==
    (Finished /\ B = 0) =>
        /\ pc = "returned"
        /\ result.x = <<>>
        /\ (RescalePath /\ heap[y] = List(<<>>)) => heap[result.y] = List(<<>>)

\* the configurations the constructor is to accept
ValidConfig(a) ==
    /\ a.height > 0
    /\ a.width > 0
    /\ \/ a.clip_values = NoClip
       \/ Len(a.clip_values[2]) = 2 /\ a.clip_values[2][1] < a.clip_values[2][2]

\* C4: construction succeeds exactly when height > 0, width > 0 and clip_values is
\* None or a pair with min < max; otherwise it raises ValueError and leaves no
\* instance.
C4_ConstructionIff ==
    pc # "new" =>
        /\ ValidConfig(args) <=> pc # "init_raised"
        /\ pc = "init_raised" => (err.type = "ValueError" /\ self = NoSelf)
        /\ pc # "init_raised" => self = args

\* a clip range with min = max is refused although height and width are positive
C4_Witness ==
    /\ pc = "init_raised"
    /\ args.height > 0 /\ args.width > 0
    /\ args.clip_values = Clip(<<1, 1>>)

\* labels that are not a list of per-image dict records: not a list, or a list with
\* a non-dict element at an index of the batch
NotListOfDicts ==
    \/ heap[y].kind # "list"
    \/ \E n \in 1..Min(B, Len(heap[y].val)) : heap[heap[y].val[n]].kind # "dict"

NonDictReachedFirst ==
    \/ heap[y].kind # "list"
    \/ \E n \in 1..Min(B, Len(heap[y].val)) :
         /\ heap[heap[y].val[n]].kind # "dict"
         /\ \A m \in 1..(n - 1) :
              /\ heap[heap[y].val[m]].kind = "dict"
              /\ "boxes" \in Keys(heap[heap[y].val[m]])

C6_MissingBoxesTypeError ==
    (/\ Finished /\ RescalePath
     /\ heap[y].kind = "list"
     /\ Len(heap[y].val) >= B
     /\ \A n \in 1..B : heap[heap[y].val[n]].kind = "dict"
     /\ \E n \in 1..B : "boxes" \notin Keys(heap[heap[y].val[n]]))
    => (pc = "raised" /\ err.type = "TypeError")

\* C7: a call with labels on the object-detection path never changes the caller's
\* label objects (the list, its records, their arrays), neither while it runs nor
\* when the caller later writes to the returned records; and the returned list,
\* records and arrays are objects of their own.
C7_InputsNotMutated ==
    /\ [][RescalePath => \A a \in 1..owned : heap'[a] = heap[a]]_vars
    /\ [](((pc \in {"returned", "written"}) /\ RescalePath) =>
            /\ result.y > owned
            /\ \A n \in 1..Len(heap[result.y].val) :
                 LET rec == heap[result.y].val[n] IN
                 /\ rec > owned
                 /\ \A m \in 1..Len(heap[rec].val) : heap[rec].val[m][2] > owned)

\* the caller has overwritten an array of a returned record with two fields
C7_Witness ==
    /\ pc = "written" /\ RescalePath
    /\ \E n \in 1..Len(heap[result.y].val) : Len(heap[heap[result.y].val[n]].val) = 2

\* the value claim C8 gives for a resized value v under the range (lo, hi)
Clamped(v, lo, hi) == IF v < lo THEN lo ELSE IF v > hi THEN hi ELSE v

\* C8: with clip_values = (min, max) every element of the returned batch is the
\* resized value clamped into [min, max]; with clip_values None the resized values
\* are returned as they are.
C8_Clipped ==
    pc = "returned" =>
        IF self.clip_values = NoClip
          THEN result.x = x_preprocess_list
          ELSE LET lo == self.clip_values[2][1]
                   hi == self.clip_values[2][2]
               IN /\ Len(result.x) = Len(x_preprocess_list)
                  /\ \A b \in 1..Len(result.x) :
                     \A p \in 1..Len(result.x[b]) :
                     \A q \in 1..Len(result.x[b][p]) :
                     \A r \in 1..Len(result.x[b][p][q]) :
                        /\ lo <= result.x[b][p][q][r]
                        /\ result.x[b][p][q][r] <= hi
                        /\ result.x[b][p][q][r] = Clamped(x_preprocess_list[b][p][q][r], lo, hi)

\* all resized values of a batch, as a set
ResizedValues ==
    {x_preprocess_list[b][p][q][r] :
        <<b, p, q, r>> \in
          {t \in (1..Len(x_preprocess_list)) \X (1..3) \X (1..3) \X (1..3) :
              /\ t[2] <= Len(x_preprocess_list[t[1]])
              /\ t[3] <= Len(x_preprocess_list[t[1]][t[2]])
              /\ t[4] <= Len(x_preprocess_list[t[1]][t[2]][t[3]])}}

\* a returned batch whose resized values lie below, inside and above the range
C8_Witness ==
    /\ pc = "returned"
    /\ self.clip_values = Clip(<<0, 1>>)
    /\ \E v \in ResizedValues : v < 0
    /\ \E v \in ResizedValues : v > 1
    /\ \E v \in ResizedValues : v = 1

\* C9: with label_type classification the returned labels are the object passed in,
\* whatever it is, and no object was created or changed for them; with
\* object_detection and labels None the returned labels are None; a classification
\* call raises no TypeError.
C9_PassThrough ==
    /\ (pc = "returned" /\ self.label_type = "classification") =>
          (result.y = y /\ Len(heap) = owned)
    /\ (pc = "returned" /\ self.label_type = "object_detection" /\ y = None) =>
          result.y = None
    /\ (pc = "raised" /\ self.label_type = "classification") => err.type # "TypeError"

\* a classification call returned a list of records given as labels
C9_Witness ==
    /\ pc = "returned"
    /\ self.label_type = "classification"
    /\ y # None
    /\ heap[y].kind = "list"
    /\ Len(heap[y].val) = B

\* C10: the constructor accepts a label_type outside label_types, and __call__
\* builds a new label list (rescaling boxes) exactly when label_type is
\* object_detection and labels is not None; for any other label_type the labels
\* come back as in the classification case.
C10_LabelTypeNotValidated ==
    /\ (pc # "new" /\ args.label_type \notin label_types /\ ValidConfig(args)) =>
          (pc # "init_raised" /\ self.label_type = args.label_type)
    /\ pc = "returned" =>
          /\ (result.y # y) <=> (self.label_type = "object_detection" /\ y # None)
          /\ (Len(heap) # owned) <=> (self.label_type = "object_detection" /\ y # None)

\* a call with an unrecognised label_type returned a list of box records unchanged
C10_Witness ==
    /\ pc = "returned"
    /\ self.label_type \notin label_types
    /\ y # None
    /\ heap[y].kind = "list"
    /\ Len(heap[y].val) = B
    /\ \A n \in 1..B : heap[heap[y].val[n]].kind = "dict"
    /\ result.y = y

====
